---- MODULE Spec2Model ----
(***************************************************************************)
(* InputCore (src/input_core/input_core.cpp): the mapping-and-polling      *)
(* engine.  Three threads act on the engine: the CoreTiming thread (Init,  *)
(* Shutdown, InputTickCallback), a frontend thread (ReloadSettings,        *)
(* SetPadState, edits of Settings::values) and a reader thread             *)
(* (GetPadState, GetCirclePad, GetTouchState).  DetectInput is modelled on  *)
(* its own variables: it only works on the locals of the call.             *)
(* UpdateEmulatorInputs and ParseSettings are also modelled alone, as      *)
(* functions of their inputs (SpecAnalog, SpecRegistry).                   *)
(*                                                                         *)
(* Floats are fixed point: a strength f is the integer f * One.            *)
(***************************************************************************)
EXTENDS Integers, Sequences, FiniteSets, TLC

\* ------------------------------------------------------------- data ----

\* the float 1.0 (the literal of ApplyDeadzone's (1 - dead_zone))
One == 100

\* input_detect_threshold (input_core.h): 0.45
input_detect_threshold == 45

\* KeyMap::MAX_CIRCLEPAD_POS (key_map.h): 0x9C
MAX_CIRCLEPAD_POS == 156

\* GPU::frame_ticks (gpu.h), the period of the tick, in units of a quarter frame
frame_ticks == 4

\* the largest cycles_late CoreTiming passes to the callback
MaxLate == 2

\* CoreTiming::ScheduleEvent called at time now: the time the event is due
ScheduleEvent(now, cycles_into_future) == now + cycles_into_future

\* Settings::InputDeviceMapping values: two keys of SDL keyboard 0 and one
\* axis of SDL gamepad 0.
PhysIds == {"J1", "K1", "K2"}

DeviceOf(m) == IF m = "J1" THEN "pad0" ELSE "kbd0"

\* InputDeviceMapping::operator== as CheckIfMappingExists applies it: same
\* framework, device and number.
MappingEq(a, b) == DeviceOf(a) = DeviceOf(b)

\* InputDeviceMapping::operator== as line 87 applies it: the sample's key is
\* the modifier's.
ModifierEq(a, b) == a = b

\* InputDeviceMapping::operator< : the order of std::set / std::map keys.
KeyOrder == <<"J1", "K1", "K2">>

\* the strengths a device's ProcessInput may report for a key
StrengthsOf(m) == IF DeviceOf(m) = "pad0" THEN {0 - 70, 0, 30, One} ELSE {0, One}

\* KeyMap::mapping_targets, index for index with Settings input_mappings
mapping_targets == <<"PAD_A", "PAD_B", "PAD_CIRCLE_UP", "PAD_CIRCLE_RIGHT">>

\* KeyMap::analog_inputs
analog_inputs == {"PAD_CIRCLE_UP", "PAD_CIRCLE_DOWN", "PAD_CIRCLE_LEFT", "PAD_CIRCLE_RIGHT"}

DigitalTargets == {"PAD_A", "PAD_B"}

\* Settings::values as the frontend may set them
Configs ==
    { [input_mappings |-> <<"K1", "K2", "K2", "J1">>, pad_circle_modifier |-> "K1",
       pad_circle_modifier_scale |-> 50, pad_circle_deadzone |-> 10],
      [input_mappings |-> <<"J1", "K2", "K1", "K1">>, pad_circle_modifier |-> "K2",
       pad_circle_modifier_scale |-> 50, pad_circle_deadzone |-> 10] }

\* the PadState values SetPadState is called with
InjectedPadStates == { {}, {"PAD_A"} }

\* ---------------------------------------------------------- helpers ----

\* std::map::operator[] / emplace on a map held as a function
Put(f, k, v) == [x \in (DOMAIN f) \cup {k} |-> IF x = k THEN v ELSE f[x]]

\* std::map::operator[] used as a read: the value, default-constructed if absent
Get(f, k, dflt) == IF k \in DOMAIN f THEN f[k] ELSE dflt

Abs(x) == IF x < 0 THEN 0 - x ELSE x

\* float -> integer conversion and float division round toward zero here
Quot(a, b) == IF a < 0 THEN 0 - ((0 - a) \div b) ELSE a \div b

\* std::sqrt, to the fixed-point unit
Sqrt(n) == CHOOSE r \in 0..(2 * One) : r * r <= n /\ n < (r + 1) * (r + 1)

\* InputCore::ApplyDeadzone
ApplyDeadzone(x, y, dead_zone) ==
    LET magnitude == Sqrt((x * x) + (y * y))
    IN IF magnitude < dead_zone
       THEN <<0, 0>>
       ELSE <<Quot(x * (magnitude - dead_zone) * One, magnitude * (One - dead_zone)),
              Quot(y * (magnitude - dead_zone) * One, magnitude * (One - dead_zone))>>

\* ------------------------------------------------------------ state ----

VARIABLES
    settings,        \* Settings::values
    devices,         \* InputCore::devices
    key_mappings,    \* InputCore::key_mappings
    keys_pressed,    \* InputCore::keys_pressed
    pad_state,       \* InputCore::pad_state (the set of bits of .hex)
    circle_pad,      \* InputCore::circle_pad
    pad_state_mutex, \* the holder of InputCore::pad_state_mutex
    abs_overload,    \* which abs the build resolves at lines 111 and 115
    pcT,             \* CoreTiming thread: position in InputTickCallback
    inputs,          \* InputTickCallback's inputs
    registry_dirty,  \* devices was modified while the poll loop iterates it
    stick,           \* the values lines 98-101 are about to store
    todo,            \* what is left of the digital pass
    pcU,             \* frontend thread: position in ReloadSettings
    pcR,             \* reader thread
    rx,              \* GetCirclePad: the first component, already copied
    padRead,         \* the last value GetPadState returned
    circRead,        \* the last value GetCirclePad returned
    pad_committed,   \* history: pad_state when pad_state_mutex was last released
    circle_committed,\* history: circle_pad as the last update left it
    rx_from,         \* history: which write of x the reader copied
    y_writes,        \* history: writes of y since the reader copied x (capped)
    last_fed,        \* history: per digital target, the strength last fed to it
    edge_fired,      \* history: the branch the last step of the digital pass took
    d_pc,            \* DetectInput: position in the call
    d_max_time,      \* DetectInput: max_time
    d_elapsed,       \* the clock: milliseconds since start (line 218)
    d_duration,      \* DetectInput: duration, as last computed (line 221)
    d_states,        \* DetectInput: current_input_states
    d_dev,           \* DetectInput: the device the loop of line 227 is at
    d_sample,        \* DetectInput: inputs of line 228, as last polled
    d_result,        \* DetectInput: the mapping returned ("" is the empty key)
    d_prev,          \* history: current_input_states before the last poll
    d_base,          \* history: current_input_states as the baseline left it
    d_gui,           \* history: update_gui calls in this loop iteration (capped)
    d_held,          \* history: above threshold at baseline and in every poll since
    a_km,            \* UpdateEmulatorInputs alone: key_mappings
    a_set,           \* UpdateEmulatorInputs alone: Settings::values
    a_inputs,        \* UpdateEmulatorInputs alone: the inputs of the last call
    a_left,          \* UpdateEmulatorInputs alone: left_stick before ApplyDeadzone
    a_circle,        \* UpdateEmulatorInputs alone: circle_pad
    g_set,           \* ParseSettings alone: Settings::values
    g_attached,      \* ParseSettings alone: the joysticks SDL can open
    g_devices,       \* ParseSettings alone: devices
    g_initialized,   \* ParseSettings alone: per handle, whether InitDevice succeeded
    g_pc,            \* ParseSettings alone: "parsed" once devices is built from g_set
    touch,           \* InputCore::touch_x, touch_y, touch_pressed
    touch_mutex,     \* the holder of InputCore::touch_mutex
    touchRead,       \* the last value GetTouchState returned
    pending,         \* CoreTiming: the number of tick_event events in the queue
    skew             \* CoreTiming: due time of the queued tick_event, less its nominal time

engine_vars == <<settings, devices, key_mappings, keys_pressed, pad_state, circle_pad,
                 pad_state_mutex, abs_overload>>
tick_vars == <<pcT, inputs, registry_dirty, stick, todo>>
ui_vars == <<pcU>>
reader_vars == <<pcR, rx, padRead, circRead>>
detect_vars == <<d_pc, d_max_time, d_elapsed, d_duration, d_states, d_dev, d_sample,
                 d_result, d_prev, d_base, d_gui, d_held>>
history_vars == <<pad_committed, circle_committed, rx_from, y_writes, last_fed, edge_fired>>
analog_vars == <<a_km, a_set, a_inputs, a_left, a_circle>>
sched_vars == <<pending, skew>>
registry_vars == <<g_set, g_attached, g_devices, g_initialized, g_pc>>
touch_vars == <<touch, touch_mutex, touchRead>>
other_vars == <<analog_vars, registry_vars, touch_vars>>
aux_vars == <<other_vars, sched_vars>>

\* ------------------------------------------------- settings parsing ----

\* InputCore::CheckIfMappingExists
CheckIfMappingExists(unique_mapping, mapping_to_check) ==
    \E mapping \in unique_mapping : MappingEq(mapping, mapping_to_check)

RECURSIVE GatherFrom(_, _)
GatherFrom(mappings, unique_mappings) ==
    IF mappings = <<>> THEN unique_mappings
    ELSE GatherFrom(Tail(mappings),
                    IF CheckIfMappingExists(unique_mappings, Head(mappings))
                    THEN unique_mappings
                    ELSE unique_mappings \cup {Head(mappings)})

\* InputCore::GatherUniqueMappings
GatherUniqueMappings(s) ==
    GatherFrom(Append(s.input_mappings, s.pad_circle_modifier), {})

\* InputCore::GenerateUniqueDevices: one device per unique mapping, in set order
GenerateUniqueDevices(s) ==
    LET uniqueMappings == GatherUniqueMappings(s)
        ordered == SelectSeq(KeyOrder, LAMBDA m : m \in uniqueMappings)
    IN [i \in 1..Len(ordered) |-> DeviceOf(ordered[i])]

RECURSIVE BuildFrom(_, _, _)
BuildFrom(s, i, km) ==
    IF i > Len(s.input_mappings) THEN km
    ELSE LET key == s.input_mappings[i]
             val == mapping_targets[i]
         IN BuildFrom(s, i + 1, Put(km, key, Append(Get(km, key, <<>>), val)))

\* InputCore::BuildKeyMapping
BuildKeyMapping(s) == BuildFrom(s, 1, <<>>)

\* ------------------------------------------------ update: the passes ----

\* one device's ProcessInput result, as the loops of lines 68-69 iterate it
SampleEntries(sample) ==
    LET keys == SelectSeq(KeyOrder, LAMBDA k : k \in DOMAIN sample)
    IN [i \in 1..Len(keys) |-> <<keys[i], sample[keys[i]]>>]

RECURSIVE Entries(_)
Entries(ins) ==
    IF ins = <<>> THEN <<>> ELSE SampleEntries(Head(ins)) \o Entries(Tail(ins))

\* the samples ProcessInput of a device can return
SamplesOf(d) ==
    LET keys == {k \in PhysIds : DeviceOf(k) = d}
    IN {f \in [keys -> UNION {StrengthsOf(k) : k \in keys}] :
            \A k \in keys : f[k] \in StrengthsOf(k)}

\* an accumulation that adds every source of a direction to the axis
RECURSIVE AnalogTargetsSum(_, _, _)
AnalogTargetsSum(emulator_inputs, strength, left) ==
    IF emulator_inputs = <<>> THEN left
    ELSE LET emulator_input == Head(emulator_inputs)
             next == IF emulator_input = "PAD_CIRCLE_UP" THEN <<left[1], left[2] - strength>>
                     ELSE IF emulator_input = "PAD_CIRCLE_DOWN" THEN <<left[1], left[2] + strength>>
                     ELSE IF emulator_input = "PAD_CIRCLE_LEFT" THEN <<left[1] - strength, left[2]>>
                     ELSE IF emulator_input = "PAD_CIRCLE_RIGHT" THEN <<left[1] + strength, left[2]>>
                     ELSE left
         IN AnalogTargetsSum(Tail(emulator_inputs), strength, next)

\* lines 72-85: the targets of one key
RECURSIVE AnalogTargets(_, _, _)
AnalogTargets(emulator_inputs, strength, left) ==
    IF emulator_inputs = <<>> THEN left
    ELSE LET emulator_input == Head(emulator_inputs)
             next == IF strength = 0 THEN left
                     ELSE IF emulator_input = "PAD_CIRCLE_UP" THEN <<left[1], 0 - strength>>
                     ELSE IF emulator_input = "PAD_CIRCLE_DOWN" THEN <<left[1], strength>>
                     ELSE IF emulator_input = "PAD_CIRCLE_LEFT" THEN <<0 - strength, left[2]>>
                     ELSE IF emulator_input = "PAD_CIRCLE_RIGHT" THEN <<strength, left[2]>>
                     ELSE left
         IN AnalogTargets(Tail(emulator_inputs), strength, next)

\* lines 68-92: acc is [km, left, modifier]
RECURSIVE AnalogPass(_, _, _)
AnalogPass(entries, s, acc) ==
    IF entries = <<>> THEN acc
    ELSE LET key == Head(entries)[1]
             strength == Head(entries)[2]
             emulator_inputs == Get(acc.km, key, <<>>)
         IN AnalogPass(Tail(entries), s,
                [km |-> Put(acc.km, key, emulator_inputs),
                 left |-> AnalogTargets(emulator_inputs, strength, acc.left),
                 modifier |-> IF ModifierEq(key, s.pad_circle_modifier)
                              THEN (IF strength > input_detect_threshold
                                    THEN s.pad_circle_modifier_scale ELSE One)
                              ELSE acc.modifier])

\* an assignment that keeps the sign of the raw Y
CirclePadOfRawSign(left, modifier, s) ==
    LET left_stick == ApplyDeadzone(left[1], left[2], s.pad_circle_deadzone)
    IN <<Quot(left_stick[1] * MAX_CIRCLEPAD_POS * modifier, One * One),
         Quot(left_stick[2] * MAX_CIRCLEPAD_POS * modifier, One * One)>>

\* lines 93-101: the pair stored in circle_pad
CirclePadOf(left, modifier, s) ==
    LET left_stick == ApplyDeadzone(left[1], left[2], s.pad_circle_deadzone)
    IN <<Quot(left_stick[1] * MAX_CIRCLEPAD_POS * modifier, One * One),
         Quot(left_stick[2] * MAX_CIRCLEPAD_POS * (0 - 1) * modifier, One * One)>>

\* lines 104-108: the (target, strength) pairs the digital pass visits, in order
RECURSIVE DigitalWork(_, _)
DigitalWork(entries, km) ==
    IF entries = <<>> THEN <<>>
    ELSE LET emulator_inputs == Get(km, Head(entries)[1], <<>>)
         IN [i \in 1..Len(emulator_inputs) |-> <<emulator_inputs[i], Head(entries)[2]>>]
            \o DigitalWork(Tail(entries), km)

\* abs(strength) of lines 111 and 115: std::abs(float) when the float overload
\* is visible at global scope, else ::abs(int) on the converted value
AbsStrength(strength) ==
    IF abs_overload = "int" THEN Abs(Quot(strength, One)) * One ELSE Abs(strength)

\* ------------------------------------------------------------- Init ----

\* no frontend call, read or DetectInput in progress; the histories are empty
Quiescent ==
    /\ pcU = "idle"
    /\ pcR = "idle"
    /\ rx = 0
    /\ padRead = {}
    /\ circRead = <<0, 0>>
    /\ pad_committed = {}
    /\ circle_committed = <<0, 0>>
    /\ rx_from = "committed"
    /\ y_writes = 0
    /\ last_fed = [t \in DigitalTargets |-> {}]
    /\ edge_fired = "none"
    /\ d_pc = "idle"
    /\ d_max_time = 0
    /\ d_elapsed = 0
    /\ d_duration = 0
    /\ d_states = <<>>
    /\ d_dev = 1
    /\ d_sample = <<>>
    /\ d_prev = <<>>
    /\ d_base = <<>>
    /\ d_result = ""
    /\ d_gui = 0
    /\ d_held = {}

\* The engine as constructed: no device, empty maps, pad_state.hex = 0.
Constructed ==
    /\ settings \in Configs
    /\ devices = <<>>
    /\ key_mappings = <<>>
    /\ keys_pressed = <<>>
    /\ pad_state = {}
    /\ circle_pad = <<0, 0>>
    /\ pad_state_mutex = "none"
    /\ abs_overload \in {"float", "int"}
    /\ pcT = "off"
    /\ inputs = <<>>
    /\ registry_dirty = FALSE
    /\ stick = <<0, 0>>
    /\ todo = <<>>

\* UpdateEmulatorInputs alone is not in use
AnalogIdle ==
    /\ a_km = <<>>
    /\ a_set = <<>>
    /\ a_inputs = <<>>
    /\ a_left = <<0, 0>>
    /\ a_circle = <<0, 0>>

\* ParseSettings alone is not in use
RegistryIdle ==
    /\ g_set = <<>>
    /\ g_attached = {}
    /\ g_devices = <<>>
    /\ g_initialized = <<>>
    /\ g_pc = "stale"

\* the touch screen as constructed: not pressed, touch_mutex free
Untouched ==
    /\ touch = <<0, 0, FALSE>>
    /\ touch_mutex = "none"
    /\ touchRead = <<0, 0, FALSE>>

\* CoreTiming before InputCore::Init: no tick_event is queued
Unscheduled ==
    /\ pending = 0
    /\ skew = 0

Init ==
    /\ Constructed
    /\ Quiescent
    /\ AnalogIdle
    /\ RegistryIdle
    /\ Unscheduled
    /\ Untouched

\* ------------------------------------------------ CoreTiming thread ----

\* InputCore::Init: ParseSettings, then the first ScheduleEvent
InitEngine ==
    /\ pcT = "off"
    /\ devices' = GenerateUniqueDevices(settings)
    /\ key_mappings' = BuildKeyMapping(settings)
    /\ pcT' = "idle"
    /\ pending' = pending + 1
    /\ skew' = ScheduleEvent(0, frame_ticks) - frame_ticks
    /\ UNCHANGED <<settings, keys_pressed, pad_state, circle_pad, pad_state_mutex,
                   abs_overload, inputs, registry_dirty, stick, todo>>
    /\ UNCHANGED <<ui_vars, reader_vars, history_vars>>
    /\ UNCHANGED <<detect_vars, other_vars>>

\* InputCore::Shutdown
Shutdown ==
    /\ pcT = "idle"
    /\ devices' = <<>>
    /\ pcT' = "off"
    /\ pending' = 0
    /\ skew' = 0
    /\ UNCHANGED <<settings, key_mappings, keys_pressed, pad_state, circle_pad,
                   pad_state_mutex, abs_overload, inputs, registry_dirty, stick, todo>>
    /\ UNCHANGED <<ui_vars, reader_vars, history_vars>>
    /\ UNCHANGED <<detect_vars, other_vars>>

\* CoreTiming takes the due event from its queue and enters InputTickCallback:
\* line 241
TickStart ==
    /\ pcT = "idle"
    /\ pending > 0
    /\ pending' = pending - 1
    /\ pcT' = "poll"
    /\ inputs' = <<>>
    /\ registry_dirty' = FALSE
    /\ UNCHANGED <<engine_vars, stick, todo, ui_vars, reader_vars, history_vars>>
    /\ UNCHANGED <<detect_vars, other_vars, skew>>

\* lines 242-244, one device per step.  The loop iterates devices without
\* pad_state_mutex: once ReloadSettings has modified the vector under it, the
\* iterators are invalid and the element read is any device's (or the loop ends).
TickPoll ==
    /\ pcT = "poll"
    /\ \/ /\ ~registry_dirty
          /\ Len(inputs) < Len(devices)
          /\ \E sample \in SamplesOf(devices[Len(inputs) + 1]) :
                inputs' = Append(inputs, sample)
          /\ UNCHANGED pcT
       \/ /\ ~registry_dirty
          /\ Len(inputs) >= Len(devices)
          /\ pcT' = "t_lock"
          /\ UNCHANGED inputs
       \/ /\ registry_dirty
          /\ Len(inputs) < 2
          /\ \E d \in {"kbd0", "pad0"} : \E sample \in SamplesOf(d) :
                inputs' = Append(inputs, sample)
          /\ UNCHANGED pcT
       \/ /\ registry_dirty
          /\ pcT' = "t_lock"
          /\ UNCHANGED inputs
    /\ UNCHANGED <<engine_vars, registry_dirty, stick, todo, ui_vars, reader_vars,
                   history_vars>>
    /\ UNCHANGED <<detect_vars, aux_vars>>

\* UpdateEmulatorInputs, line 61: pad_state_mutex is taken
TickLock ==
    /\ pcT = "t_lock"
    /\ pad_state_mutex = "none"
    /\ pad_state_mutex' = "tick"
    /\ pcT' = "analog"
    /\ UNCHANGED <<settings, devices, key_mappings, keys_pressed, pad_state, circle_pad,
                   abs_overload, inputs, registry_dirty, stick, todo>>
    /\ UNCHANGED <<ui_vars, reader_vars, history_vars>>
    /\ UNCHANGED <<detect_vars, aux_vars>>

\* lines 63-95: the analog pass and the deadzone
TickAnalog ==
    /\ pcT = "analog"
    /\ LET acc == AnalogPass(Entries(inputs), settings,
                             [km |-> key_mappings, left |-> <<0, 0>>, modifier |-> One])
       IN /\ key_mappings' = acc.km
          /\ stick' = CirclePadOf(acc.left, acc.modifier, settings)
    /\ pcT' = "setx"
    /\ UNCHANGED <<settings, devices, keys_pressed, pad_state, circle_pad,
                   pad_state_mutex, abs_overload, inputs, registry_dirty, todo>>
    /\ UNCHANGED <<ui_vars, reader_vars, history_vars>>
    /\ UNCHANGED <<detect_vars, aux_vars>>

\* lines 98-99: std::get<0>(circle_pad) is stored
TickSetX ==
    /\ pcT = "setx"
    /\ circle_pad' = <<stick[1], circle_pad[2]>>
    /\ pcT' = "sety"
    /\ UNCHANGED <<settings, devices, key_mappings, keys_pressed, pad_state,
                   pad_state_mutex, abs_overload, inputs, registry_dirty, stick, todo>>
    /\ UNCHANGED <<ui_vars, reader_vars, history_vars>>
    /\ UNCHANGED <<detect_vars, aux_vars>>

\* lines 100-101: std::get<1>(circle_pad) is stored; the digital pass begins
TickSetY ==
    /\ pcT = "sety"
    /\ circle_pad' = <<circle_pad[1], stick[2]>>
    /\ todo' = DigitalWork(Entries(inputs), key_mappings)
    /\ pcT' = "digital"
    /\ y_writes' = IF pcR = "cy" /\ y_writes < 2 THEN y_writes + 1 ELSE y_writes
    /\ circle_committed' = <<circle_pad[1], stick[2]>>
    /\ UNCHANGED <<settings, devices, key_mappings, keys_pressed, pad_state,
                   pad_state_mutex, abs_overload, inputs, registry_dirty, stick>>
    /\ UNCHANGED <<ui_vars, reader_vars, pad_committed, rx_from, last_fed, edge_fired>>
    /\ UNCHANGED <<detect_vars, aux_vars>>

\* a level-triggered digital pass: the latch is written but never consulted
TickDigitalLevel ==
    /\ pcT = "digital"
    /\ todo # <<>>
    /\ LET emulator_input == Head(todo)[1]
           strength == Head(todo)[2]
       IN IF emulator_input \in analog_inputs
          THEN /\ edge_fired' = "none"
               /\ UNCHANGED <<pad_state, keys_pressed, last_fed>>
          ELSE /\ last_fed' = [last_fed EXCEPT ![emulator_input] = {strength}]
               /\ IF AbsStrength(strength) < input_detect_threshold
                  THEN /\ pad_state' = pad_state \ {emulator_input}
                       /\ keys_pressed' = Put(keys_pressed, emulator_input, FALSE)
                       /\ edge_fired' = "release"
                  ELSE /\ pad_state' = pad_state \cup {emulator_input}
                       /\ keys_pressed' = Put(keys_pressed, emulator_input, TRUE)
                       /\ edge_fired' = "press"
    /\ todo' = Tail(todo)
    /\ UNCHANGED <<settings, devices, key_mappings, circle_pad, pad_state_mutex,
                   abs_overload, pcT, inputs, registry_dirty, stick>>
    /\ UNCHANGED <<ui_vars, reader_vars, pad_committed, circle_committed, rx_from,
                   y_writes>>
    /\ UNCHANGED <<detect_vars, aux_vars>>

\* a digital pass whose release edge clears the bit and leaves the latch pressed
TickDigitalKeepsLatch ==
    /\ pcT = "digital"
    /\ todo # <<>>
    /\ LET emulator_input == Head(todo)[1]
           strength == Head(todo)[2]
           pressed == Get(keys_pressed, emulator_input, FALSE)
       IN IF emulator_input \in analog_inputs
          THEN /\ edge_fired' = "none"
               /\ UNCHANGED <<pad_state, keys_pressed, last_fed>>
          ELSE /\ last_fed' = [last_fed EXCEPT ![emulator_input] = {strength}]
               /\ IF AbsStrength(strength) < input_detect_threshold /\ pressed
                  THEN /\ pad_state' = pad_state \ {emulator_input}
                       /\ keys_pressed' = Put(keys_pressed, emulator_input, TRUE)
                       /\ edge_fired' = "release"
                  ELSE IF AbsStrength(strength) >= input_detect_threshold /\ ~pressed
                  THEN /\ pad_state' = pad_state \cup {emulator_input}
                       /\ keys_pressed' = Put(keys_pressed, emulator_input, TRUE)
                       /\ edge_fired' = "press"
                  ELSE /\ keys_pressed' = Put(keys_pressed, emulator_input, pressed)
                       /\ edge_fired' = "none"
                       /\ UNCHANGED pad_state
    /\ todo' = Tail(todo)
    /\ UNCHANGED <<settings, devices, key_mappings, circle_pad, pad_state_mutex,
                   abs_overload, pcT, inputs, registry_dirty, stick>>
    /\ UNCHANGED <<ui_vars, reader_vars, pad_committed, circle_committed, rx_from,
                   y_writes>>
    /\ UNCHANGED <<detect_vars, aux_vars>>

\* lines 108-120, one (emulator_input, strength) per step
TickDigital ==
    /\ pcT = "digital"
    /\ todo # <<>>
    /\ LET emulator_input == Head(todo)[1]
           strength == Head(todo)[2]
           pressed == Get(keys_pressed, emulator_input, FALSE)
       IN IF emulator_input \in analog_inputs
          THEN /\ edge_fired' = "none"
               /\ UNCHANGED <<pad_state, keys_pressed, last_fed>>
          ELSE /\ last_fed' = [last_fed EXCEPT ![emulator_input] = {strength}]
               /\ IF AbsStrength(strength) < input_detect_threshold /\ pressed
                  THEN /\ pad_state' = pad_state \ {emulator_input}
                       /\ keys_pressed' = Put(keys_pressed, emulator_input, FALSE)
                       /\ edge_fired' = "release"
                  ELSE IF AbsStrength(strength) >= input_detect_threshold /\ ~pressed
                  THEN /\ pad_state' = pad_state \cup {emulator_input}
                       /\ keys_pressed' = Put(keys_pressed, emulator_input, TRUE)
                       /\ edge_fired' = "press"
                  ELSE /\ keys_pressed' = Put(keys_pressed, emulator_input, pressed)
                       /\ edge_fired' = "none"
                       /\ UNCHANGED pad_state
    /\ todo' = Tail(todo)
    /\ UNCHANGED <<settings, devices, key_mappings, circle_pad, pad_state_mutex,
                   abs_overload, pcT, inputs, registry_dirty, stick>>
    /\ UNCHANGED <<ui_vars, reader_vars, pad_committed, circle_committed, rx_from,
                   y_writes>>
    /\ UNCHANGED <<detect_vars, aux_vars>>

\* line 124: UpdateEmulatorInputs returns and releases pad_state_mutex
TickUnlock ==
    /\ pcT = "digital"
    /\ todo = <<>>
    /\ pad_state_mutex' = "none"
    /\ pcT' = "resched"
    /\ pad_committed' = pad_state
    /\ edge_fired' = "none"
    /\ UNCHANGED <<settings, devices, key_mappings, keys_pressed, pad_state, circle_pad,
                   abs_overload, inputs, registry_dirty, stick, todo>>
    /\ UNCHANGED <<ui_vars, reader_vars, circle_committed, rx_from, y_writes, last_fed>>
    /\ UNCHANGED <<detect_vars, aux_vars>>

\* a callback that schedules the next event a whole period from now
TickReschedUncompensated ==
    /\ pcT = "resched"
    /\ \E cycles_late \in 0..MaxLate :
          skew' = ScheduleEvent(skew + cycles_late, frame_ticks) - frame_ticks
    /\ pending' = pending + 1
    /\ pcT' = "idle"
    /\ inputs' = <<>>
    /\ stick' = <<0, 0>>
    /\ registry_dirty' = FALSE
    /\ UNCHANGED <<engine_vars, todo, ui_vars, reader_vars, history_vars>>
    /\ UNCHANGED <<detect_vars, other_vars>>

\* lines 247-250: Service::HID::Update, then the event is scheduled again.  The
\* callback runs cycles_late after the time its event was due.
TickResched ==
    /\ pcT = "resched"
    /\ \E cycles_late \in 0..MaxLate :
          skew' = ScheduleEvent(skew + cycles_late, frame_ticks - cycles_late) - frame_ticks
    /\ pending' = pending + 1
    /\ pcT' = "idle"
    /\ inputs' = <<>>
    /\ stick' = <<0, 0>>
    /\ registry_dirty' = FALSE
    /\ UNCHANGED <<engine_vars, todo, ui_vars, reader_vars, history_vars>>
    /\ UNCHANGED <<detect_vars, other_vars>>

\* -------------------------------------------------- frontend thread ----

\* the configuration dialog stores new Settings::values
ChangeSettings ==
    /\ pcU = "idle"
    /\ \E c \in Configs \ {settings} : settings' = c
    /\ UNCHANGED <<devices, key_mappings, keys_pressed, pad_state, circle_pad,
                   pad_state_mutex, abs_overload>>
    /\ UNCHANGED <<tick_vars, ui_vars, reader_vars, history_vars>>
    /\ UNCHANGED <<detect_vars, aux_vars>>

\* InputCore::SetPadState
SetPadState ==
    /\ pcU = "idle"
    /\ pad_state_mutex = "none"
    /\ \E state \in InjectedPadStates : /\ pad_state' = state
                                        /\ pad_committed' = state
    /\ UNCHANGED <<settings, devices, key_mappings, keys_pressed, circle_pad,
                   pad_state_mutex, abs_overload>>
    /\ UNCHANGED <<tick_vars, ui_vars, reader_vars, circle_committed, rx_from, y_writes,
                   last_fed, edge_fired>>
    /\ UNCHANGED <<detect_vars, aux_vars>>

\* a ReloadSettings without the devices.empty() test
ReloadCheckAlways ==
    /\ pcU = "idle"
    /\ pcU' = "r_lock"
    /\ UNCHANGED <<engine_vars, tick_vars, reader_vars, history_vars>>
    /\ UNCHANGED <<detect_vars, aux_vars>>

\* ReloadSettings, lines 185-186: nothing to do without devices
ReloadCheck ==
    /\ pcU = "idle"
    /\ pcU' = IF devices = <<>> THEN "r_return" ELSE "r_lock"
    /\ UNCHANGED <<engine_vars, tick_vars, reader_vars, history_vars>>
    /\ UNCHANGED <<detect_vars, aux_vars>>

\* line 186: the return of a ReloadSettings that found no device
ReloadReturn ==
    /\ pcU = "r_return"
    /\ pcU' = "idle"
    /\ UNCHANGED <<engine_vars, tick_vars, reader_vars, history_vars>>
    /\ UNCHANGED <<detect_vars, aux_vars>>

\* line 187
ReloadLock ==
    /\ pcU = "r_lock"
    /\ pad_state_mutex = "none"
    /\ pad_state_mutex' = "ui"
    /\ pcU' = "r_clear"
    /\ UNCHANGED <<settings, devices, key_mappings, keys_pressed, pad_state, circle_pad,
                   abs_overload>>
    /\ UNCHANGED <<tick_vars, reader_vars, history_vars>>
    /\ UNCHANGED <<detect_vars, aux_vars>>

\* line 188: devices.clear()
ReloadClear ==
    /\ pcU = "r_clear"
    /\ devices' = <<>>
    /\ registry_dirty' = (registry_dirty \/ pcT = "poll")
    /\ pcU' = "r_generate"
    /\ UNCHANGED <<settings, key_mappings, keys_pressed, pad_state, circle_pad,
                   pad_state_mutex, abs_overload>>
    /\ UNCHANGED <<pcT, inputs, stick, todo, reader_vars, history_vars>>
    /\ UNCHANGED <<detect_vars, aux_vars>>

\* line 189, ParseSettings: GenerateUniqueDevices
ReloadGenerate ==
    /\ pcU = "r_generate"
    /\ devices' = GenerateUniqueDevices(settings)
    /\ registry_dirty' = (registry_dirty \/ pcT = "poll")
    /\ pcU' = "r_build"
    /\ UNCHANGED <<settings, key_mappings, keys_pressed, pad_state, circle_pad,
                   pad_state_mutex, abs_overload>>
    /\ UNCHANGED <<pcT, inputs, stick, todo, reader_vars, history_vars>>
    /\ UNCHANGED <<detect_vars, aux_vars>>

\* a rebuild that also clears the bitfield
ReloadBuildClearsPad ==
    /\ pcU = "r_build"
    /\ key_mappings' = BuildKeyMapping(settings)
    /\ pad_state' = {}
    /\ pcU' = "r_unlock"
    /\ UNCHANGED <<settings, devices, keys_pressed, circle_pad, pad_state_mutex,
                   abs_overload>>
    /\ UNCHANGED <<tick_vars, reader_vars, history_vars>>
    /\ UNCHANGED <<detect_vars, aux_vars>>

\* line 189, ParseSettings: BuildKeyMapping
ReloadBuild ==
    /\ pcU = "r_build"
    /\ key_mappings' = BuildKeyMapping(settings)
    /\ pcU' = "r_unlock"
    /\ UNCHANGED <<settings, devices, keys_pressed, pad_state, circle_pad,
                   pad_state_mutex, abs_overload>>
    /\ UNCHANGED <<tick_vars, reader_vars, history_vars>>
    /\ UNCHANGED <<detect_vars, aux_vars>>

\* line 190: ReloadSettings returns and releases pad_state_mutex
ReloadUnlock ==
    /\ pcU = "r_unlock"
    /\ pad_state_mutex' = "none"
    /\ pcU' = "idle"
    /\ pad_committed' = pad_state
    /\ UNCHANGED <<settings, devices, key_mappings, keys_pressed, pad_state, circle_pad,
                   abs_overload>>
    /\ UNCHANGED <<tick_vars, reader_vars, circle_committed, rx_from, y_writes, last_fed,
                   edge_fired>>
    /\ UNCHANGED <<detect_vars, aux_vars>>

\* ---------------------------------------------------- reader thread ----

\* GetPadState without its lock_guard
GetPadStateUnlocked ==
    /\ pcR = "idle"
    /\ padRead' = pad_state
    /\ pcR' = "padread"
    /\ UNCHANGED <<engine_vars, tick_vars, ui_vars, rx, circRead, history_vars>>
    /\ UNCHANGED <<detect_vars, aux_vars>>

\* InputCore::GetPadState: the copy is made under pad_state_mutex
GetPadState ==
    /\ pcR = "idle"
    /\ pad_state_mutex = "none"
    /\ padRead' = pad_state
    /\ pcR' = "padread"
    /\ UNCHANGED <<engine_vars, tick_vars, ui_vars, rx, circRead, history_vars>>
    /\ UNCHANGED <<detect_vars, aux_vars>>

\* the caller is done with the value it was returned
ReaderReturn ==
    /\ pcR \in {"padread", "circleread"}
    /\ pcR' = "idle"
    /\ padRead' = {}
    /\ circRead' = <<0, 0>>
    /\ rx' = 0
    /\ rx_from' = "committed"
    /\ y_writes' = 0
    /\ UNCHANGED <<engine_vars, tick_vars, ui_vars, pad_committed, circle_committed,
                   last_fed, edge_fired>>
    /\ UNCHANGED <<detect_vars, aux_vars>>

\* InputCore::GetCirclePad, line 39: the tuple is copied without a lock, one
\* component after the other
GetCirclePadX ==
    /\ pcR = "idle"
    /\ rx' = circle_pad[1]
    /\ rx_from' = IF pcT = "sety" THEN "inflight" ELSE "committed"
    /\ y_writes' = 0
    /\ pcR' = "cy"
    /\ UNCHANGED <<engine_vars, tick_vars, ui_vars, padRead, circRead, pad_committed,
                   circle_committed, last_fed, edge_fired>>
    /\ UNCHANGED <<detect_vars, aux_vars>>

GetCirclePadY ==
    /\ pcR = "cy"
    /\ circRead' = <<rx, circle_pad[2]>>
    /\ pcR' = "circleread"
    /\ UNCHANGED <<engine_vars, tick_vars, ui_vars, rx, padRead, history_vars>>
    /\ UNCHANGED <<detect_vars, aux_vars>>

\* ------------------------------------------------------ touch state ----

\* the tuples SetTouchState is called with
TouchValues == { <<0, 0, FALSE>>, <<10, 20, TRUE>> }

\* InputCore::SetTouchState is called by the frontend thread
SetTouchCall ==
    /\ pcU = "idle"
    /\ pcU' = "st_lock"
    /\ UNCHANGED <<engine_vars, tick_vars, reader_vars, history_vars>>
    /\ UNCHANGED <<detect_vars, aux_vars>>

\* a SetTouchState that takes pad_state_mutex as well
SetTouchLockNested ==
    /\ pcU = "st_lock"
    /\ touch_mutex = "none"
    /\ pad_state_mutex = "none"
    /\ touch_mutex' = "ui"
    /\ pad_state_mutex' = "ui"
    /\ pcU' = "st_store"
    /\ UNCHANGED <<settings, devices, key_mappings, keys_pressed, pad_state, circle_pad,
                   abs_overload>>
    /\ UNCHANGED <<tick_vars, reader_vars, history_vars>>
    /\ UNCHANGED <<detect_vars, analog_vars, registry_vars, sched_vars, touch, touchRead>>

\* line 55: touch_mutex is taken
SetTouchLock ==
    /\ pcU = "st_lock"
    /\ touch_mutex = "none"
    /\ touch_mutex' = "ui"
    /\ pcU' = "st_store"
    /\ UNCHANGED <<engine_vars, tick_vars, reader_vars, history_vars>>
    /\ UNCHANGED <<detect_vars, analog_vars, registry_vars, sched_vars, touch, touchRead>>

\* lines 56-57: the tuple is stored; the return releases touch_mutex
SetTouchStore ==
    /\ pcU = "st_store"
    /\ \E value \in TouchValues : touch' = value
    /\ touch_mutex' = "none"
    /\ pcU' = "idle"
    /\ UNCHANGED <<engine_vars, tick_vars, reader_vars, history_vars>>
    /\ UNCHANGED <<detect_vars, analog_vars, registry_vars, sched_vars, touchRead>>

\* InputCore::GetTouchState is called by the reader thread
GetTouchCall ==
    /\ pcR = "idle"
    /\ pcR' = "gt_lock"
    /\ UNCHANGED <<engine_vars, tick_vars, ui_vars, rx, padRead, circRead, history_vars>>
    /\ UNCHANGED <<detect_vars, aux_vars>>

\* line 50: touch_mutex is taken
GetTouchLock ==
    /\ pcR = "gt_lock"
    /\ touch_mutex = "none"
    /\ touch_mutex' = "reader"
    /\ pcR' = "gt_copy"
    /\ UNCHANGED <<engine_vars, tick_vars, ui_vars, rx, padRead, circRead, history_vars>>
    /\ UNCHANGED <<detect_vars, analog_vars, registry_vars, sched_vars, touch, touchRead>>

\* lines 51-52: the tuple is copied; the return releases touch_mutex
GetTouchCopy ==
    /\ pcR = "gt_copy"
    /\ touchRead' = touch
    /\ touch_mutex' = "none"
    /\ pcR' = "idle"
    /\ UNCHANGED <<engine_vars, tick_vars, ui_vars, rx, padRead, circRead, history_vars>>
    /\ UNCHANGED <<detect_vars, analog_vars, registry_vars, sched_vars, touch>>

\* ------------------------------------------------------ DetectInput ----

\* the largest max_time a caller passes
MaxTime == 2

\* InputCore::GetAllDevices: the joysticks, then the keyboard
GetAllDevices == <<"pad0", "kbd0">>

\* what ProcessInput of a device can return while detecting: any of its keys
\* may be missing from the map
DetectSamplesOf(d) ==
    LET keys == {k \in PhysIds : DeviceOf(k) = d}
        strengths(k) == IF d = "pad0" THEN StrengthsOf(k) \cup {input_detect_threshold}
                        ELSE StrengthsOf(k)
    IN UNION { {f \in [ks -> UNION {strengths(k) : k \in ks}] :
                    \A k \in ks : f[k] \in strengths(k)} : ks \in SUBSET keys }

\* a baseline that records every input as inactive
BaselineAllInactive(entries, states) ==
    [k \in (DOMAIN states) \cup {entries[i][1] : i \in 1..Len(entries)} |-> FALSE]

\* lines 210-215: emplace keeps the entry a key already has
RECURSIVE Baseline(_, _)
Baseline(entries, states) ==
    IF entries = <<>> THEN states
    ELSE LET key == Head(entries)[1]
             strength == Head(entries)[2]
         IN Baseline(Tail(entries),
                     IF key \in DOMAIN states THEN states
                     ELSE Put(states, key, strength > input_detect_threshold))

\* a loop body that never re-arms an input released after the baseline
RECURSIVE ProcessInputsNoRearm(_, _)
ProcessInputsNoRearm(entries, states) ==
    IF entries = <<>> THEN [ret |-> "", states |-> states]
    ELSE LET key == Head(entries)[1]
             strength == Head(entries)[2]
         IN IF strength > input_detect_threshold /\ Get(states, key, FALSE) = FALSE
            THEN [ret |-> key, states |-> Put(states, key, FALSE)]
            ELSE ProcessInputsNoRearm(Tail(entries), states)

\* lines 229-234: the first fresh press is returned; operator[] inserts a key
\* it is asked for; && evaluates its right side only when the left side holds
RECURSIVE ProcessInputs(_, _)
ProcessInputs(entries, states) ==
    IF entries = <<>> THEN [ret |-> "", states |-> states]
    ELSE LET key == Head(entries)[1]
             strength == Head(entries)[2]
         IN IF strength > input_detect_threshold
            THEN IF Get(states, key, FALSE) = FALSE
                 THEN [ret |-> key, states |-> Put(states, key, FALSE)]
                 ELSE ProcessInputs(Tail(entries), states)
            ELSE IF strength < input_detect_threshold
            THEN ProcessInputs(Tail(entries), Put(states, key, FALSE))
            ELSE ProcessInputs(Tail(entries), states)

\* a loop that gives up at its first time check
TimedOutAlways(duration, max_time) == TRUE

\* a loop that never gives up
TimedOutNever(duration, max_time) == FALSE

\* line 224
TimedOut(duration, max_time) == duration >= max_time

\* a DetectInput that holds pad_state_mutex for the length of the call
DetectCallLocked ==
    /\ d_pc = "idle"
    /\ pad_state_mutex = "none"
    /\ pad_state_mutex' = "detect"
    /\ \E max_time \in 0..MaxTime : d_max_time' = max_time
    /\ d_pc' = "baseline"
    /\ UNCHANGED <<d_elapsed, d_duration, d_states, d_dev, d_sample, d_result, d_prev,
                   d_base, d_gui, d_held>>
    /\ UNCHANGED <<settings, devices, key_mappings, keys_pressed, pad_state, circle_pad,
                   abs_overload>>
    /\ UNCHANGED <<tick_vars, ui_vars, reader_vars, history_vars, aux_vars>>

\* DetectInput is called: lines 202-205
DetectCall ==
    /\ d_pc = "idle"
    /\ \E max_time \in 0..MaxTime : d_max_time' = max_time
    /\ d_pc' = "baseline"
    /\ UNCHANGED <<d_elapsed, d_duration, d_states, d_dev, d_sample, d_result, d_prev,
                   d_base, d_gui, d_held>>
    /\ UNCHANGED <<engine_vars, tick_vars, ui_vars, reader_vars, history_vars, aux_vars>>

\* lines 209-218: one baseline sample per device, then the clock is started
DetectBaseline ==
    /\ d_pc = "baseline"
    /\ \E s1 \in DetectSamplesOf(GetAllDevices[1]) : \E s2 \in DetectSamplesOf(GetAllDevices[2]) :
          /\ d_states' = Baseline(SampleEntries(s1) \o SampleEntries(s2), <<>>)
          /\ d_base' = d_states'
          /\ d_held' = {k \in DOMAIN s1 : s1[k] > input_detect_threshold}
                         \cup {k \in DOMAIN s2 : s2[k] > input_detect_threshold}
    /\ d_elapsed' = 0
    /\ d_gui' = 0
    /\ d_pc' = "gui"
    /\ UNCHANGED <<d_max_time, d_duration, d_dev, d_sample, d_result, d_prev>>
    /\ UNCHANGED <<engine_vars, tick_vars, ui_vars, reader_vars, history_vars, aux_vars>>

\* lines 219-220: input_device.key is empty, update_gui is called
DetectGui ==
    /\ d_pc = "gui"
    /\ d_gui' = IF d_gui < 2 THEN d_gui + 1 ELSE d_gui
    /\ d_pc' = "time"
    /\ UNCHANGED <<d_max_time, d_elapsed, d_duration, d_states, d_dev, d_sample,
                   d_result, d_prev, d_base, d_held>>
    /\ UNCHANGED <<engine_vars, tick_vars, ui_vars, reader_vars, history_vars, aux_vars>>

\* lines 221-226 and 237: the elapsed time is measured and compared
DetectTime ==
    /\ d_pc = "time"
    /\ d_duration' = d_elapsed
    /\ IF TimedOut(d_elapsed, d_max_time)
       THEN d_pc' = "done" /\ d_result' = "" /\ UNCHANGED d_dev
       ELSE d_pc' = "sample" /\ d_dev' = 1 /\ UNCHANGED d_result
    /\ UNCHANGED <<d_max_time, d_elapsed, d_states, d_sample, d_prev, d_base, d_gui,
                   d_held>>
    /\ UNCHANGED <<engine_vars, tick_vars, ui_vars, reader_vars, history_vars, aux_vars>>

\* lines 227-235, one device per step
DetectSample ==
    /\ d_pc = "sample"
    /\ \E inputs_ \in DetectSamplesOf(GetAllDevices[d_dev]) :
          LET r == ProcessInputs(SampleEntries(inputs_), d_states)
          IN /\ d_sample' = inputs_
             /\ d_prev' = d_states
             /\ d_states' = r.states
             /\ d_held' = d_held \ {k \in DOMAIN inputs_ : inputs_[k] <= input_detect_threshold}
             /\ IF r.ret # ""
                THEN d_pc' = "done" /\ d_result' = r.ret /\ UNCHANGED <<d_dev, d_gui>>
                ELSE IF d_dev < Len(GetAllDevices)
                THEN d_dev' = d_dev + 1 /\ UNCHANGED <<d_pc, d_result, d_gui>>
                ELSE d_pc' = "gui" /\ d_gui' = 0 /\ UNCHANGED <<d_dev, d_result>>
    /\ UNCHANGED <<d_max_time, d_elapsed, d_duration, d_base>>
    /\ UNCHANGED <<engine_vars, tick_vars, ui_vars, reader_vars, history_vars, aux_vars>>

\* the caller takes the result
DetectReturn ==
    /\ d_pc = "done"
    /\ d_pc' = "idle"
    /\ d_max_time' = 0
    /\ d_elapsed' = 0
    /\ d_duration' = 0
    /\ d_states' = <<>>
    /\ d_dev' = 1
    /\ d_sample' = <<>>
    /\ d_prev' = <<>>
    /\ d_base' = <<>>
    /\ d_result' = ""
    /\ d_gui' = 0
    /\ d_held' = {}
    /\ UNCHANGED <<engine_vars, tick_vars, ui_vars, reader_vars, history_vars, aux_vars>>

\* std::chrono::high_resolution_clock advances by a millisecond (beyond
\* max_time every reading compares alike)
DetectClock ==
    /\ d_pc \in {"gui", "time", "sample"}
    /\ d_elapsed < d_max_time
    /\ d_elapsed' = d_elapsed + 1
    /\ UNCHANGED <<d_pc, d_max_time, d_duration, d_states, d_dev, d_sample, d_result,
                   d_prev, d_base, d_gui, d_held>>
    /\ UNCHANGED <<engine_vars, tick_vars, ui_vars, reader_vars, history_vars, aux_vars>>

\* ------------------------------------------------------------- Spec ----

vars == <<engine_vars, tick_vars, ui_vars, reader_vars, history_vars, detect_vars, aux_vars>>

\* the CoreTiming thread and the frontend thread
Next ==
    \/ InitEngine
    \/ Shutdown
    \/ TickStart
    \/ TickPoll
    \/ TickLock
    \/ TickAnalog
    \/ TickSetX
    \/ TickSetY
    \/ TickDigital
    \/ TickUnlock
    \/ TickResched
    \/ ChangeSettings
    \/ SetPadState
    \/ ReloadCheck
    \/ ReloadReturn
    \/ ReloadLock
    \/ ReloadClear
    \/ ReloadGenerate
    \/ ReloadBuild
    \/ ReloadUnlock

Spec == Init /\ [][Next]_vars

\* the CoreTiming thread, a reader thread and SetPadState
NextReader ==
    \/ InitEngine
    \/ SetPadState
    \/ TickStart
    \/ TickPoll
    \/ TickLock
    \/ TickAnalog
    \/ TickSetX
    \/ TickSetY
    \/ TickDigital
    \/ TickUnlock
    \/ TickResched
    \/ GetPadState
    \/ GetCirclePadX
    \/ GetCirclePadY
    \/ ReaderReturn

SpecReader == Init /\ [][NextReader]_vars

\* a frontend thread in DetectInput, and the clock
NextDetect ==
    \/ DetectCall
    \/ DetectBaseline
    \/ DetectGui
    \/ DetectTime
    \/ DetectSample
    \/ DetectReturn
    \/ DetectClock

SpecDetect == Init /\ [][NextDetect]_vars

\* the clock advances, and update_gui and every ProcessInput return
SpecDetectFair ==
    /\ Init
    /\ [][NextDetect]_vars
    /\ WF_vars(DetectClock)
    /\ WF_vars(DetectBaseline \/ DetectGui \/ DetectTime \/ DetectSample)

\* DetectInput on a frontend thread while the CoreTiming thread runs one
\* UpdateEmulatorInputs.  The engine is initialised with DetectTickConfig and the
\* callback has polled DetectTickInputs (lines 242-244) and is at line 246.
DetectTickConfig == CHOOSE c \in Configs : c.pad_circle_modifier = "K1"

DetectTickInputs == <<[J1 |-> One], [K1 |-> One, K2 |-> 0]>>

InitDetectTick ==
    /\ settings = DetectTickConfig
    /\ devices = GenerateUniqueDevices(DetectTickConfig)
    /\ key_mappings = BuildKeyMapping(DetectTickConfig)
    /\ keys_pressed = <<>>
    /\ pad_state = {}
    /\ circle_pad = <<0, 0>>
    /\ pad_state_mutex = "none"
    /\ abs_overload \in {"float", "int"}
    /\ pcT = "t_lock"
    /\ inputs = DetectTickInputs
    /\ registry_dirty = FALSE
    /\ stick = <<0, 0>>
    /\ todo = <<>>
    /\ Quiescent
    /\ AnalogIdle
    /\ RegistryIdle
    /\ Unscheduled
    /\ Untouched

NextDetectTick ==
    \/ DetectCall
    \/ DetectBaseline
    \/ DetectGui
    \/ DetectTime
    \/ DetectSample
    \/ DetectReturn
    \/ DetectClock
    \/ TickLock
    \/ TickAnalog
    \/ TickSetX
    \/ TickSetY
    \/ TickDigital
    \/ TickUnlock
    \/ TickResched

SpecDetectTick == InitDetectTick /\ [][NextDetectTick]_vars

\* UpdateEmulatorInputs alone, lines 63-101, on any mapping table, settings and
\* samples of its argument types.

\* the strengths of a sample: 0.05 is below the deadzone of 0.1
AnalogStrengths == {0 - One, 0, 5, 30, 90, One}

\* key_mappings: tables with one source per direction, with two sources of one
\* direction, and with one source of two directions
AnalogTables ==
    { [K1 |-> <<"PAD_CIRCLE_UP">>],
      [K1 |-> <<"PAD_CIRCLE_RIGHT">>, K2 |-> <<"PAD_CIRCLE_RIGHT">>],
      [K1 |-> <<"PAD_CIRCLE_UP">>, K2 |-> <<"PAD_CIRCLE_RIGHT">>],
      [J1 |-> <<"PAD_CIRCLE_RIGHT">>, K1 |-> <<"PAD_CIRCLE_LEFT">>,
       K2 |-> <<"PAD_B", "PAD_CIRCLE_DOWN">>] }

\* Settings::values: the modifier unset (its key is empty), and set to K2
AnalogSettings ==
    { [input_mappings |-> <<>>, pad_circle_modifier |-> "",
       pad_circle_modifier_scale |-> 50, pad_circle_deadzone |-> 10],
      [input_mappings |-> <<>>, pad_circle_modifier |-> "K2",
       pad_circle_modifier_scale |-> 50, pad_circle_deadzone |-> 10] }

\* the argument of UpdateEmulatorInputs: one sample of the gamepad, one of the
\* keyboard
AnalogInputs ==
    { <<p, k>> : p \in [{"J1"} -> {0 - One, 0, 30}], k \in [{"K1", "K2"} -> AnalogStrengths] }

InitAnalog ==
    /\ Constructed
    /\ settings = DetectTickConfig
    /\ abs_overload = "float"
    /\ Quiescent
    /\ a_km \in AnalogTables
    /\ a_set \in AnalogSettings
    /\ a_inputs = <<>>
    /\ a_left = <<0, 0>>
    /\ a_circle = <<0, 0>>
    /\ RegistryIdle
    /\ Unscheduled
    /\ Untouched

\* UpdateEmulatorInputs, lines 63-101, called with inputs_
AnalogUpdate ==
    /\ \E inputs_ \in AnalogInputs :
          LET acc == AnalogPass(Entries(inputs_), a_set,
                                [km |-> a_km, left |-> <<0, 0>>, modifier |-> One])
          IN /\ a_inputs' = inputs_
             /\ a_km' = acc.km
             /\ a_left' = acc.left
             /\ a_circle' = CirclePadOf(acc.left, acc.modifier, a_set)
    /\ UNCHANGED a_set
    /\ UNCHANGED <<engine_vars, tick_vars, ui_vars, reader_vars, history_vars, detect_vars,
                   sched_vars, registry_vars, touch_vars>>

NextAnalog == AnalogUpdate

SpecAnalog == InitAnalog /\ [][NextAnalog]_vars

\* ParseSettings alone, lines 157-182, on any settings, with the joystick
\* present or not.

\* Settings::values: keyboard and gamepad, keyboard only, gamepad only, gamepad
\* by the modifier only
RegistryConfigs ==
    Configs \cup
    { [input_mappings |-> m, pad_circle_modifier |-> k,
       pad_circle_modifier_scale |-> 50, pad_circle_deadzone |-> 10] :
         m \in { <<"K1", "K2", "K2", "K1">>, <<"J1", "J1", "J1", "J1">>,
                 <<"K2", "J1", "K1", "K1">> },
         k \in {"K1", "J1"} }

\* InputDeviceInterface::InitDevice of a handle: the keyboard is always there,
\* a joystick opens only when it is attached
InitDevice(device, attached) == device = "kbd0" \/ device \in attached

InitRegistry ==
    /\ Constructed
    /\ settings = DetectTickConfig
    /\ abs_overload = "float"
    /\ Quiescent
    /\ AnalogIdle
    /\ Unscheduled
    /\ Untouched
    /\ g_set \in RegistryConfigs
    /\ g_attached \in SUBSET {"pad0"}
    /\ g_devices = <<>>
    /\ g_initialized = <<>>
    /\ g_pc = "stale"

\* ParseSettings, lines 157-176: the handle is pushed, then initialised
RegistryParse ==
    /\ g_devices' = GenerateUniqueDevices(g_set)
    /\ g_initialized' = [i \in DOMAIN g_devices' |-> InitDevice(g_devices'[i], g_attached)]
    /\ g_pc' = "parsed"
    /\ UNCHANGED <<g_set, g_attached>>
    /\ UNCHANGED <<engine_vars, tick_vars, ui_vars, reader_vars, history_vars, detect_vars,
                   sched_vars, analog_vars, touch_vars>>

\* the frontend stores other Settings::values
RegistrySettings ==
    /\ \E c \in RegistryConfigs \ {g_set} : g_set' = c
    /\ g_pc' = "stale"
    /\ UNCHANGED <<g_attached, g_devices, g_initialized>>
    /\ UNCHANGED <<engine_vars, tick_vars, ui_vars, reader_vars, history_vars, detect_vars,
                   sched_vars, analog_vars, touch_vars>>

\* the joystick is plugged in or pulled out
RegistryPlug ==
    /\ \E a \in (SUBSET {"pad0"}) \ {g_attached} : g_attached' = a
    /\ g_pc' = "stale"
    /\ UNCHANGED <<g_set, g_devices, g_initialized>>
    /\ UNCHANGED <<engine_vars, tick_vars, ui_vars, reader_vars, history_vars, detect_vars,
                   sched_vars, analog_vars, touch_vars>>

NextRegistry ==
    \/ RegistryParse
    \/ RegistrySettings
    \/ RegistryPlug

SpecRegistry == InitRegistry /\ [][NextRegistry]_vars

\* every operation that takes a lock, beside one UpdateEmulatorInputs: the
\* frontend thread reloads, injects pad states and sets the touch state, the
\* reader thread reads the pad state and the touch state
NextLocks ==
    \/ TickLock
    \/ TickAnalog
    \/ TickSetX
    \/ TickSetY
    \/ TickDigital
    \/ TickUnlock
    \/ TickResched
    \/ SetPadState
    \/ ReloadCheck
    \/ ReloadLock
    \/ ReloadClear
    \/ ReloadGenerate
    \/ ReloadBuild
    \/ ReloadUnlock
    \/ SetTouchCall
    \/ SetTouchLock
    \/ SetTouchStore
    \/ GetPadState
    \/ ReaderReturn
    \/ GetTouchCall
    \/ GetTouchLock
    \/ GetTouchCopy

SpecLocks == InitDetectTick /\ [][NextLocks]_vars

\* ------------------------------------------------------ properties ----

\* the latch entry of a target, as keys_pressed[target] reads it
Latched(t) == Get(keys_pressed, t, FALSE)

\* the same entry after the step
LatchedNext(t) == Get(keys_pressed', t, FALSE)

\* C1: when ReloadSettings has rebuilt the registry and the mapping table and is
\* about to return, no target's pressed-latch entry is 'pressed'.
C1_ReloadResetsLatch ==
    pcU = "r_unlock" => \A t \in DOMAIN keys_pressed : ~keys_pressed[t]

\* C2: a rebuild never overlaps a tick in flight: while ReloadSettings is between
\* taking and releasing the lock, the tick is neither past its first read of the
\* device registry nor inside UpdateEmulatorInputs.
C2_RebuildNeverInterleavesTick ==
    ~(/\ pcU \in {"r_clear", "r_generate", "r_build", "r_unlock"}
      /\ \/ pcT \in {"t_lock", "analog", "setx", "sety", "digital"}
         \/ pcT = "poll" /\ inputs # <<>>)

\* C3: every value GetPadState returns is the pad state as a finished update
\* left it, never the bitfield of an update partway through its digital pass.
C3_PadReadAtomic ==
    [][(pcR = "idle" /\ pcR' = "padread") => padRead' = pad_committed]_vars

\* C3 witness: GetPadState has returned a state with a bit set and the following
\* update is already partway through its digital pass, having changed the bits.
C3_Witness ==
    /\ pcR = "padread"
    /\ padRead = {"PAD_A"}
    /\ pcT = "digital"
    /\ pad_state # padRead

\* C4: both components of the pair GetCirclePad returns were stored by one and
\* the same update (or the pair is the one the latest update stored).
C4_CirclePadNotTorn ==
    pcR = "circleread" =>
        \/ rx_from = "committed" /\ y_writes = 0
        \/ rx_from = "inflight" /\ y_writes = 1
        \/ circRead = circle_committed

\* C5: a digital target fed the strength it was last fed makes no transition:
\* no edge fires and the bitfield is unchanged, however many updates repeat it.
C5_EdgeIdempotent ==
    [][(/\ pcT = "digital" /\ todo # <<>> /\ todo' = Tail(todo)
        /\ Head(todo)[1] \in DigitalTargets
        /\ last_fed[Head(todo)[1]] = {Head(todo)[2]})
       => (edge_fired' = "none" /\ pad_state' = pad_state
           /\ LatchedNext(Head(todo)[1]) = Latched(Head(todo)[1]))]_vars

\* C5 witness: a held button, whose press has set its bit, is about to be fed
\* the same full strength again by a later update.
C5_Witness ==
    /\ pcT = "digital" /\ todo # <<>>
    /\ Head(todo) = <<"PAD_A", One>>
    /\ last_fed["PAD_A"] = {One}
    /\ "PAD_A" \in pad_state
    /\ Latched("PAD_A")

\* the edge detector's case table, for the step of the digital pass being taken
EdgeDetectorStepOk ==
    (pcT = "digital" /\ todo # <<>> /\ todo' = Tail(todo)) =>
        LET e == Head(todo)[1]
            s == Head(todo)[2]
        IN IF e \in analog_inputs
           THEN pad_state' = pad_state /\ keys_pressed' = keys_pressed
           ELSE IF Abs(s) < input_detect_threshold /\ Latched(e)
           THEN pad_state' = pad_state \ {e} /\ ~LatchedNext(e)
           ELSE IF Abs(s) >= input_detect_threshold /\ ~Latched(e)
           THEN pad_state' = pad_state \cup {e} /\ LatchedNext(e)
           ELSE pad_state' = pad_state /\ LatchedNext(e) = Latched(e)

\* C6: a step of the digital pass on target e with strength s: an analog target
\* leaves bitfield and latch alone; |s| < t with the latch pressed clears the bit
\* and releases the latch; |s| >= t with the latch released sets the bit and
\* presses the latch; every other case changes neither.
C6_EdgeDetectorCases == [][EdgeDetectorStepOk]_vars

\* the same table where abs resolves to std::abs(float): there it holds
EdgeDetectorFloatAbs == [][abs_overload = "float" => EdgeDetectorStepOk]_vars

\* the place of a key in the iteration order of a ProcessInput result
KeyRank(k) == CHOOSE i \in 1..Len(KeyOrder) : KeyOrder[i] = k

\* C7: DetectInput never returns an input that was above the threshold in the
\* baseline sample and in every sample polled since.
C7_HeldInputNeverDetected ==
    d_pc = "done" => d_result \notin d_held

\* C7 witness: K1 was held from the baseline on and is above the threshold in
\* the very sample from which another key, K2, is returned.
C7_Witness ==
    /\ d_pc = "done"
    /\ d_result = "K2"
    /\ "K1" \in d_held
    /\ "K1" \in DOMAIN d_sample
    /\ d_sample["K1"] > input_detect_threshold

\* C8: polling a device inside the loop: if some input of the sample is above the
\* threshold while recorded inactive (or not recorded), the call returns the first
\* such input in iteration order; if none is, the call goes on and every input
\* of the sample that is below the threshold is recorded inactive from then on.
C8_FirstFreshPressReturned ==
    [][(d_pc = "sample" /\ (d_pc' # "sample" \/ d_dev' # d_dev)) =>
        LET fresh == {k \in DOMAIN d_sample' :
                        d_sample'[k] > input_detect_threshold /\ ~Get(d_states, k, FALSE)}
        IN /\ fresh # {} =>
                /\ d_pc' = "done"
                /\ d_result' \in fresh
                /\ \A k \in fresh : KeyRank(d_result') <= KeyRank(k)
           /\ fresh = {} =>
                /\ d_pc' # "done"
                /\ \A k \in DOMAIN d_sample' :
                      d_sample'[k] < input_detect_threshold => ~Get(d_states', k, TRUE)]_vars

\* C8 witness: K1, active at the baseline, was seen released by a loop sample
\* and is now returned as a fresh press.
C8_Witness ==
    /\ d_pc = "done"
    /\ d_result = "K1"
    /\ Get(d_base, "K1", FALSE)
    /\ ~Get(d_prev, "K1", TRUE)

\* C9: an empty result comes with a measured duration >= max_time; a result
\* that is not empty is an input of the last sample, above the threshold there
\* and recorded inactive (or not recorded) before that sample.
C9_NoneOnlyOnTimeout ==
    d_pc = "done" =>
        IF d_result = ""
        THEN d_duration >= d_max_time
        ELSE /\ d_result \in DOMAIN d_sample
             /\ d_sample[d_result] > input_detect_threshold
             /\ ~Get(d_prev, d_result, FALSE)

\* C9 witness: the longest timeout ran out after the devices had been polled.
C9_Witness ==
    /\ d_pc = "done"
    /\ d_result = ""
    /\ d_max_time = MaxTime
    /\ d_sample # <<>>

\* C10: a call in progress ends, and update_gui has been called exactly once in
\* the iteration whenever the time is checked or a device is polled.
C10_DetectTerminates ==
    /\ (d_pc \in {"baseline", "gui", "time", "sample"}) ~> (d_pc = "done")
    /\ [](d_pc \in {"time", "sample"} => d_gui = 1)

\* C10 witness: a call with a timeout above zero ended by the timeout, the
\* clock having advanced to it, the callback called once in the last iteration.
C10_Witness ==
    /\ d_pc = "done"
    /\ d_result = ""
    /\ d_max_time > 0
    /\ d_elapsed = d_max_time
    /\ d_gui = 1
    /\ d_held # {}

\* C11: DetectInput never holds pad_state_mutex: whatever point a DetectInput
\* call is at, the lock is free or held by the update itself, an update that
\* asks for the lock can take it, and an update past that point holds it.
C11_DetectNeverBlocksTick ==
    /\ pad_state_mutex \in {"none", "tick"}
    /\ pcT = "t_lock" => ENABLED TickLock
    /\ pcT \in {"analog", "setx", "sety", "digital"} => pad_state_mutex = "tick"

\* C11 witness: the update has run to its end and set a bit while a DetectInput
\* call was inside its polling loop.
C11_Witness ==
    /\ d_pc = "sample"
    /\ d_sample # <<>>
    /\ pcT = "resched"
    /\ "PAD_A" \in pad_state

\* C12: a ReloadSettings called while the registry holds no device returns at
\* once: from the call to its return it takes no lock and leaves the registry,
\* the mapping table, the latch, the bitfield, the circle pad and the touch
\* state as they were,
\* so no driver is created or initialised.
C12_ReloadWithoutDevicesIsNoOp ==
    [][/\ (pcU = "idle" /\ pcU' # "idle" /\ devices = <<>>) =>
            (pcU' = "r_return" /\ UNCHANGED <<engine_vars, touch>>)
       /\ (pcU = "r_return" /\ pcU' # "r_return") =>
            (pcU' = "idle" /\ UNCHANGED <<engine_vars, touch>>)]_vars

\* C12 witness: ReloadSettings is returning early on an engine that was shut
\* down with a button held and its bit set.
C12_Witness ==
    /\ pcU = "r_return"
    /\ pcT = "off"
    /\ devices = <<>>
    /\ Latched("PAD_A")
    /\ "PAD_A" \in pad_state

\* the (target, strength) pairs of the last call, in the order lines 68-72 visit
\* them
AnalogWrites == DigitalWork(Entries(a_inputs), a_km)

\* the last pair with a strength other than zero whose target is in dirs
LastWrite(dirs) ==
    LET S == {i \in 1..Len(AnalogWrites) :
                 AnalogWrites[i][1] \in dirs /\ AnalogWrites[i][2] # 0}
    IN IF S = {} THEN 0 ELSE CHOOSE i \in S : \A j \in S : j <= i

\* C13: the raw axis value of a call is the strength of the last entry, in
\* iteration order, that maps to a direction of the axis with a strength other
\* than zero (negated for Left and Up), and zero if there is none: sources are
\* never added, and an entry of strength zero overwrites nothing.
C13_AnalogLastWriteWins ==
    a_inputs # <<>> =>
        LET ix == LastWrite({"PAD_CIRCLE_LEFT", "PAD_CIRCLE_RIGHT"})
            iy == LastWrite({"PAD_CIRCLE_UP", "PAD_CIRCLE_DOWN"})
        IN /\ a_left[1] = IF ix = 0 THEN 0
                          ELSE IF AnalogWrites[ix][1] = "PAD_CIRCLE_RIGHT"
                          THEN AnalogWrites[ix][2] ELSE 0 - AnalogWrites[ix][2]
           /\ a_left[2] = IF iy = 0 THEN 0
                          ELSE IF AnalogWrites[iy][1] = "PAD_CIRCLE_DOWN"
                          THEN AnalogWrites[iy][2] ELSE 0 - AnalogWrites[iy][2]

\* C13 witness: two keys map to Right and report 0.3, then 0.9: the raw X is 0.9
C13_Witness ==
    /\ Get(a_km, "K1", <<>>) = <<"PAD_CIRCLE_RIGHT">>
    /\ Get(a_km, "K2", <<>>) = <<"PAD_CIRCLE_RIGHT">>
    /\ a_inputs = <<[J1 |-> 0], [K1 |-> 30, K2 |-> 90]>>
    /\ a_left = <<90, 0>>

\* Scenario A: the table is {K1 -> Up}, the deadzone 0.1, the modifier unset
ScenarioA ==
    /\ Get(a_km, "K1", <<>>) = <<"PAD_CIRCLE_UP">>
    /\ Get(a_km, "K2", <<>>) = <<>>
    /\ Get(a_km, "J1", <<>>) = <<>>
    /\ a_set.pad_circle_deadzone = 10
    /\ a_set.pad_circle_modifier = ""
    /\ a_inputs # <<>>

\* C14 as stated: in Scenario A an update with K1 at 1.0 leaves the stick at
\* (0, -full_scale), and an update with K1 at 0.0 leaves it at (0, 0).
C14_ScenarioA_AsStated ==
    ScenarioA =>
        /\ a_inputs[2]["K1"] = One => a_circle = <<0, 0 - MAX_CIRCLEPAD_POS>>
        /\ a_inputs[2]["K1"] = 0 => a_circle = <<0, 0>>

\* C14 amended: in Scenario A an update with K1 at 1.0 leaves the stick at
\* (0, +full_scale): Up is raw Y = -1.0 and the stored Y is the raw Y negated.
\* An update with K1 at 0.0 leaves it at (0, 0), whatever the call before fed.
C14_ScenarioA ==
    ScenarioA =>
        /\ a_inputs[2]["K1"] = One =>
                (a_left = <<0, 0 - One>> /\ a_circle = <<0, MAX_CIRCLEPAD_POS>>)
        /\ a_inputs[2]["K1"] = 0 => a_circle = <<0, 0>>

\* C14 witness: Scenario A after the update that fed K1 at 1.0
C14_Witness ==
    /\ ScenarioA
    /\ a_inputs[2]["K1"] = One
    /\ a_circle = <<0, MAX_CIRCLEPAD_POS>>

\* C15: between Init and Shutdown one tick event is queued whenever the callback
\* is not running, due exactly at its nominal time (a whole number of periods
\* after Init) whatever the lateness of the callbacks before it; the callback
\* takes that event from the queue and ends by scheduling exactly one; before
\* Init and after Shutdown none is queued.
C15_DriftCompensation ==
    /\ pcT = "idle" => (pending = 1 /\ skew = 0)
    /\ pcT # "idle" => pending = 0

\* C15 witness: a callback has run a whole update, pressed a button, and has
\* scheduled its successor.
C15_Witness ==
    /\ pcT = "idle"
    /\ pending = 1
    /\ Latched("PAD_A")
    /\ pad_committed # {}

\* the devices the mappings and the modifier of g_set refer to
ReferencedDevices ==
    {DeviceOf(g_set.input_mappings[i]) : i \in 1..Len(g_set.input_mappings)}
        \cup {DeviceOf(g_set.pad_circle_modifier)}

\* C16: after every ParseSettings the registry holds one handle for each device
\* the mappings or the modifier refer to whose driver initialises, no handle
\* twice, every handle initialised; a device whose driver does not initialise
\* has no handle in the registry.
C16_RegistryExactAndInitialised ==
    g_pc = "parsed" =>
        /\ \A i, j \in DOMAIN g_devices : g_devices[i] = g_devices[j] => i = j
        /\ \A i \in DOMAIN g_devices : g_initialized[i]
        /\ {g_devices[i] : i \in DOMAIN g_devices}
               = {d \in ReferencedDevices : InitDevice(d, g_attached)}

\* what does hold after every ParseSettings: one handle for each device
\* referred to, no handle twice, initialised or not
RegistryExact ==
    g_pc = "parsed" =>
        /\ \A i, j \in DOMAIN g_devices : g_devices[i] = g_devices[j] => i = j
        /\ {g_devices[i] : i \in DOMAIN g_devices} = ReferencedDevices

\* a step of the digital pass that sets or clears the bit of its one target,
\* together with the latch of that target
EdgeTransition ==
    /\ pcT = "digital" /\ todo # <<>> /\ todo' = Tail(todo)
    /\ pad_state_mutex = "tick"
    /\ LET e == Head(todo)[1]
       IN /\ e \in DigitalTargets
          /\ \/ pad_state' = pad_state \cup {e} /\ ~Latched(e) /\ LatchedNext(e)
             \/ pad_state' = pad_state \ {e} /\ Latched(e) /\ ~LatchedNext(e)

\* a SetPadState: the frontend replaces the bitfield while nobody holds the lock
Injection ==
    /\ pcU = "idle" /\ pcU' = "idle"
    /\ pad_state_mutex = "none" /\ pad_state_mutex' = "none"
    /\ UNCHANGED <<tick_vars, keys_pressed>>

\* C17: every step that changes the bitfield is an edge transition of the
\* digital pass, which changes the bit of one target, or a SetPadState; no step
\* of ReloadSettings and no other step of the update changes it.
C17_BitsChangeByEdgesOnly ==
    [][pad_state' # pad_state => (EdgeTransition \/ Injection)]_vars

\* C17 witness: with the bit of one button set before, a press edge has just
\* set the bit of another and left the first alone.
C17_Witness ==
    /\ pcT = "digital"
    /\ edge_fired = "press"
    /\ pad_state = {"PAD_A", "PAD_B"}
    /\ pad_committed = {"PAD_A"}

\* the threads that are inside an operation
TickActive == pcT \notin {"off", "idle"}
UiActive == pcU # "idle"
ReaderActive == pcR \notin {"idle", "padread", "circleread"}

\* the threads that wait for a lock somebody holds
TickBlocked == pcT = "t_lock" /\ pad_state_mutex # "none"
UiBlocked ==
    \/ pcU = "r_lock" /\ pad_state_mutex # "none"
    \/ pcU = "st_lock" /\ touch_mutex # "none"
ReaderBlocked == pcR = "gt_lock" /\ touch_mutex # "none"

\* C18: no thread holds pad_state_mutex and touch_mutex at once; a thread that
\* is in no operation, or has not yet taken its lock, holds none; and whenever
\* threads are inside operations one of them is not waiting for a lock.
C18_LocksNeverNested ==
    /\ \A h \in {"tick", "ui", "reader"} : ~(pad_state_mutex = h /\ touch_mutex = h)
    /\ pcT \in {"off", "idle", "poll", "t_lock", "resched"} => pad_state_mutex # "tick"
    /\ pcU \in {"idle", "r_lock", "r_return", "st_lock"} =>
            (pad_state_mutex # "ui" /\ touch_mutex # "ui")
    /\ pcR \in {"idle", "padread", "circleread", "gt_lock"} => touch_mutex # "reader"
    /\ pad_state_mutex # "reader"
    /\ touch_mutex # "tick"
    /\ (TickActive \/ UiActive \/ ReaderActive) =>
            \/ TickActive /\ ~TickBlocked
            \/ UiActive /\ ~UiBlocked
            \/ ReaderActive /\ ~ReaderBlocked

\* C18 witness: both locks are held, by different threads, and the third thread
\* waits for one of them.
C18_Witness ==
    /\ pad_state_mutex = "tick"
    /\ touch_mutex = "ui"
    /\ pcR = "gt_lock"
    /\ touch = <<10, 20, TRUE>>

\* every digital target's bit is set exactly when its latch is pressed
BitsMatchLatch == \A t \in DigitalTargets : (t \in pad_state) <=> Latched(t)

\* the same after the step
BitsMatchLatchNext == \A t \in DigitalTargets : (t \in pad_state') <=> LatchedNext(t)

\* C19: the controller starts with every bit equal to its latch, and every step
\* of an update or of a ReloadSettings keeps them equal; only a SetPadState can
\* make them differ.  After that the update sets a bit only in the step that
\* takes its latch from released to pressed, so the bit of a held button that an
\* injection cleared stays clear until the button is released and pressed again.
C19_BitsFollowLatch ==
    /\ BitsMatchLatch
    /\ [][(BitsMatchLatch /\ ~(Injection /\ pad_state' # pad_state))
             => BitsMatchLatchNext]_vars
    /\ [][\A t \in DigitalTargets :
             (t \notin pad_state /\ t \in pad_state'
                  /\ ~(Injection /\ pad_state' # pad_state))
                => (~Latched(t) /\ LatchedNext(t))]_vars

\* C19 witness: an update has finished its digital pass, in which the held
\* button PAD_A was fed 1.0 again; its latch is pressed and its bit, cleared by
\* a SetPadState before the update, is still clear.
C19_Witness ==
    /\ pcT = "digital"
    /\ todo = <<>>
    /\ last_fed["PAD_A"] = {One}
    /\ Latched("PAD_A")
    /\ "PAD_A" \notin pad_state

\* whenever the raw magnitude of the last call is below the deadzone the stick
\* is exactly (0, 0): this part of C20 holds
StickZeroBelowDeadzone ==
    (a_inputs # <<>>
        /\ Sqrt((a_left[1] * a_left[1]) + (a_left[2] * a_left[2])) < a_set.pad_circle_deadzone)
    => a_circle = <<0, 0>>

\* C20: after an update with strengths in [-1, 1] and a deadzone in [0, 1) each
\* component of the stick is at most full scale in absolute value (the modifier
\* scale being at most 1.0), also with two directions at 1.0 in the same call;
\* and a raw magnitude below the deadzone gives exactly (0, 0).
C20_StickInRange ==
    a_inputs # <<>> =>
        /\ Abs(a_circle[1]) <= MAX_CIRCLEPAD_POS
        /\ Abs(a_circle[2]) <= MAX_CIRCLEPAD_POS
        /\ StickZeroBelowDeadzone

====
